---- MODULE Spec2Model ----
(***************************************************************************)
(* Model of the image-sign repository: the sign route (src/app/api/sign/   *)
(* route.ts, POST/processImage), the two verify handlers (the one that     *)
(* follows it in the same file, and src/app/api/verify/route.ts), and the  *)
(* identity codec they share; and, under GateSpec, the authorization       *)
(* callback and matcher of src/middleware.ts (gate holds its decisions).   *)
(*                                                                         *)
(* Bytes are modelled symbolically.  A string is a sequence of atoms; the  *)
(* characters ':' and ',' that the code splits on are atoms of their own,  *)
(* every other atom is a maximal run of characters without them.  A file   *)
(* is a record of the parts the code can tell apart (format, EXIF          *)
(* description, PNG chunk list, per-chunk CRC validity, trailing bytes).   *)
(* Cryptography is ideal: a signature names the key and the exact bytes    *)
(* signed; a cipher text names the secret, the IV and the plain text.      *)
(***************************************************************************)
EXTENDS Integers, Sequences, FiniteSets, TLC

VARIABLES env, signResp, held, verifyResp, audit, gate, chain, upload, verification

vars == <<env, signResp, held, verifyResp, audit, gate, chain, upload, verification>>

\* ------------------------------------------------------------------ bounds
\* Date.now() values a sign request can observe (1..MaxTime).
MaxTime == 2
\* crypto.randomBytes(16) values a sign request can draw (1..MaxIv).
MaxIv == 1
\* requests whose passage through the middleware is kept in gate
MaxRequests == 2
\* files a user of a component can choose or drop (1..MaxFiles; 0 is none)
MaxFiles == 2
\* requests one component sends to its route
MaxFetches == 3
\* times a returned file is sent to the sign route again
MaxResign == 2

\* ----------------------------------------------------------------- strings
At(k, a, b, c, m) == [k |-> k, a |-> a, b |-> b, c |-> c, m |-> m]
Colon == At(":", 0, 0, 0, <<>>)
Comma == At(",", 0, 0, 0, <<>>)
Word(w) == At(w, 0, 0, 0, <<>>)
\* a plain-text identity (an e-mail address, or any other session string)
Email(i) == <<At("addr", i, 0, 0, <<>>)>>
\* 32 hex digits of an IV; hex of an AES-256-CBC cipher text
IvHex(i) == At("ivhex", i, 0, 0, <<>>)
CtHex(secretKey, iv, plain) == At("cthex", secretKey, iv, 0, plain)
\* the raw bytes of a file, as they stand inside a signed payload
Bytes(file) == <<At("bytes", 0, 0, 0, <<file>>)>>
\* hex sha256 of a buffer
Sha256Hex(file) == <<At("sha256", 0, 0, 0, <<file>>)>>
\* base64 of a signature made with key id over data
SigB64(id, data) == <<At("sigb64", id, 0, 0, data)>>
\* a key as configured: form is "b64pem" (base64 of a PEM document),
\* "rawb64" (base64 key body without envelope) or "pem" (PEM text)
KeyText(form, half, id) == <<At("key", id, 0, 0, <<form, half>>)>>

\* JavaScript values held in the fields of the embedded JSON
Undef == [t |-> "undef", s |-> <<>>]
JsNull == [t |-> "null", s |-> <<>>]
Num == [t |-> "num", s |-> <<>>]
Str(s) == [t |-> "str", s |-> s]
Truthy(v) == v.t = "num" \/ (v.t = "str" /\ v.s # <<>>)

\* Date.prototype.toISOString: 2024-01-15T10:30:00.000Z holds two colons
toISOString(now) ==
  <<At("iso", now, 1, 0, <<>>), Colon, At("iso", now, 2, 0, <<>>), Colon,
    At("iso", now, 3, 0, <<>>)>>
\* a date without a time of day, 2024-01-15: no colon in it
DateOnly(day) == <<At("date", day, 0, 0, <<>>)>>

\* String.prototype.split(sep)
RECURSIVE split(_, _)
split(s, sep) ==
  IF \A i \in 1..Len(s) : s[i] # sep
  THEN <<s>>
  ELSE LET i == CHOOSE i \in 1..Len(s) :
                  s[i] = sep /\ \A j \in 1..(i - 1) : s[j] # sep
       IN  <<SubSeq(s, 1, i - 1)>> \o split(SubSeq(s, i + 1, Len(s)), sep)

\* String.prototype.startsWith(prefix)
startsWith(s, prefix) ==
  Len(s) >= Len(prefix) /\ SubSeq(s, 1, Len(prefix)) = prefix

SignedColon == <<Word("signed"), Colon>>

\* results of calls that may throw
Ok(v) == [t |-> "ok", v |-> <<v>>]
Throw == [t |-> "throw", v |-> <<>>]
Val(r) == r.v[1]

\* -------------------------------------------------- embedded metadata text
\* the signature payload object
\* a payload whose timestamp is taken anew when it is built
PayloadRestamped(signature, email, timestamp, originalBufferHash, publicKey) ==
  [signature |-> signature, email |-> email, timestamp |-> Str(toISOString(0)),
   originalBufferHash |-> originalBufferHash, publicKey |-> publicKey]
Payload(signature, email, timestamp, originalBufferHash, publicKey) ==
  [signature |-> signature, email |-> email, timestamp |-> timestamp,
   originalBufferHash |-> originalBufferHash, publicKey |-> publicKey]
NoPayload == Payload(Undef, Undef, Undef, Undef, Undef)

\* a text is the characters of a JSON document (an object with the fields
\* above, or the document null) or any other characters
JsonText(obj) == [kind |-> "object", obj |-> obj, raw |-> <<>>]
NullText == [kind |-> "null", obj |-> NoPayload, raw |-> <<>>]
RawText(s) == [kind |-> "raw", obj |-> NoPayload, raw |-> s]

JSONstringify(obj) == JsonText(obj)
JSONparse(text) ==
  CASE text.kind = "object" -> Ok([t |-> "obj", obj |-> text.obj])
    [] text.kind = "null" -> Ok([t |-> "null", obj |-> NoPayload])
    [] OTHER -> Throw
textStartsWithSigned(text) ==
  text.kind = "raw" /\ startsWith(text.raw, SignedColon)

\* ------------------------------------------------------------------- files
\* fmt: what the first bytes say; magicOk: the first bytes are intact;
\* px: image data; exif: <<>> or one EXIF block; exifOk: piexif can insert
\* into the file; chunks: the PNG chunks in file order; tail: the bytes that
\* png-chunks-extract never reads (length and CRC of IEND, anything after)
\* tiffOk: piexif.load can parse the block (a truncated block makes it throw)
Exif(desc, sw, other) ==
  [desc |-> desc, sw |-> sw, other |-> other, tiffOk |-> TRUE]
Chunk(name, data, kw, text, crcOk) ==
  [name |-> name, data |-> data, kw |-> kw, text |-> text, crcOk |-> crcOk]
IHDR == Chunk("IHDR", 0, "", <<>>, TRUE)
IDAT(d) == Chunk("IDAT", d, "", <<>>, TRUE)
IEND == Chunk("IEND", 0, "", <<>>, TRUE)
\* png-chunk-text encode(keyword, text)
encodeText(keyword, text) == Chunk("tEXt", 0, keyword, <<text>>, TRUE)
\* a tEXt chunk whose data holds no separator: decodeText throws on it
MalformedText == Chunk("tEXt", 1, "?", <<>>, TRUE)

Jpeg(px, exif, exifOk) ==
  [fmt |-> "jpeg", magicOk |-> TRUE, px |-> px, exif |-> exif,
   exifOk |-> exifOk, chunks |-> <<>>, tail |-> 0]
Png(chunks) ==
  [fmt |-> "png", magicOk |-> TRUE, px |-> 0, exif |-> <<>>,
   exifOk |-> TRUE, chunks |-> chunks, tail |-> 0]
Other(fmt, px) ==
  [fmt |-> fmt, magicOk |-> TRUE, px |-> px, exif |-> <<>>,
   exifOk |-> TRUE, chunks |-> <<>>, tail |-> 0]

\* png-chunks-extract: IHDR must come first, every chunk before IEND has its
\* CRC checked, reading stops at the first IEND
FirstIEND(cs) ==
  IF \E i \in 1..Len(cs) : cs[i].name = "IEND"
  THEN CHOOSE i \in 1..Len(cs) :
         cs[i].name = "IEND" /\ \A j \in 1..(i - 1) : cs[j].name # "IEND"
  ELSE 0
extract(buffer) ==
  LET upTo(cs, e) ==
        IF Len(cs) = 0 \/ e = 0 THEN Throw
        ELSE IF cs[1].name # "IHDR" \/ \E j \in 1..(e - 1) : ~cs[j].crcOk THEN Throw
        ELSE Ok(SubSeq(cs, 1, e - 1) \o <<IEND>>)
  IN  IF ~buffer.magicOk THEN Throw
      ELSE upTo(buffer.chunks, FirstIEND(buffer.chunks))
\* png-chunks-encode: writes the signature, then every chunk with a fresh CRC
encode(chunks) == Png(chunks)
\* png-chunk-text decode(data)
decodeText(chunk) ==
  IF chunk.kw = "?" THEN Throw ELSE Ok([keyword |-> chunk.kw, text |-> chunk.text])

\* a filter that keeps every chunk
KeepEveryChunk(chunk) == TRUE
\* the chunk filter of processImage and verifyImage: drop tEXt chunks whose
\* keyword is Signature, keep the ones that do not decode
NotSignatureChunk(chunk) ==
  LET keep(decoded) ==
        IF decoded.t = "throw" THEN TRUE ELSE Val(decoded).keyword # "Signature"
  IN  chunk.name = "tEXt" => keep(decodeText(chunk))

\* sharp(buffer).metadata(): the format, or a throw on bytes it cannot read
sharpMetadata(buffer) == IF buffer.magicOk THEN Ok(buffer.fmt) ELSE Throw
\* fileTypeFromBuffer(buffer): the mime type of the magic number, or undefined
fileTypeFromBuffer(buffer) == IF buffer.magicOk THEN buffer.fmt ELSE "undefined"

\* -------------------------------------------------------------------- keys
\* key pairs with an odd id are Ed25519, with an even id RSA; id 0 is no key
KeyAlg(id) == IF id = 0 THEN "none" ELSE IF id % 2 = 1 THEN "ed25519" ELSE "rsa"

\* The key formatting of processImage (half = "PRIVATE") and verifyImage
\* (half = "PUBLIC"): if the base64-decoded text holds the BEGIN marker the
\* decoded text is the key, else the configured text is cut into 64-character
\* lines and put between a BEGIN and an END line.  Buffer.from(s, 'base64')
\* does not throw on a string, so the catch branch is not reached.
formatKey(keyText, half) ==
  LET k == keyText[1]
      form == k.m[1]
      bodyHalf == k.m[2]
  IN  IF form = "b64pem" /\ bodyHalf = half
      THEN [id |-> k.a, envHalf |-> half, bodyHalf |-> bodyHalf,
            envelopes |-> 1, der |-> TRUE]
      ELSE [id |-> k.a, envHalf |-> half, bodyHalf |-> bodyHalf,
            envelopes |-> IF form = "pem" THEN 2 ELSE 1,
            der |-> (form = "rawb64")]

\* a PEM document node:crypto can load as a key of that half
Loadable(fkey, half) ==
  /\ fkey.envelopes = 1 /\ fkey.der
  /\ fkey.envHalf = half /\ fkey.bodyHalf = half
  /\ KeyAlg(fkey.id) # "none"

\* crypto.sign(null, data, key): Ed25519 signs the data itself; for an RSA
\* key the build either refuses (nullRsaThrows) or signs with its default
\* digest, SHA-256
cryptoSignNull(data, fkey, nullRsaThrows) ==
  IF ~Loadable(fkey, "PRIVATE") THEN Throw
  ELSE IF KeyAlg(fkey.id) = "rsa" /\ nullRsaThrows THEN Throw
  ELSE Ok(SigB64(fkey.id, data))
\* a SHA-256 path that is fed the image bytes alone
createSignSha256ImageOnly(data, fkey) ==
  IF ~Loadable(fkey, "PRIVATE") \/ KeyAlg(fkey.id) # "rsa" THEN Throw
  ELSE Ok(SigB64(fkey.id, SubSeq(data, 1, 1)))
\* crypto.createSign('sha256').update(data).sign(key, 'base64')
createSignSha256(data, fkey) ==
  IF ~Loadable(fkey, "PRIVATE") \/ KeyAlg(fkey.id) # "rsa" THEN Throw
  ELSE Ok(SigB64(fkey.id, data))
\* a check that accepts every signature
cryptoVerifyNullAccepts(data, fkey, signature, nullRsaThrows) == Ok(TRUE)
\* crypto.verify(null, data, key, Buffer.from(signature, 'base64'))
cryptoVerifyNull(data, fkey, signature, nullRsaThrows) ==
  IF signature.t # "str" \/ ~Loadable(fkey, "PUBLIC") THEN Throw
  ELSE IF KeyAlg(fkey.id) = "rsa" /\ nullRsaThrows THEN Throw
  ELSE Ok(signature.s = SigB64(fkey.id, data))
\* a check of the signed bytes alone, whichever key made the signature
createVerifySha256AnyKey(data, fkey, signature) ==
  IF signature.t # "str" \/ Len(signature.s) # 1 THEN Throw
  ELSE Ok(signature.s[1].k = "sigb64" /\ signature.s[1].m = data)
\* crypto.createVerify('sha256').update(data).verify(key, signature, 'base64')
createVerifySha256(data, fkey, signature) ==
  IF signature.t # "str" \/ ~Loadable(fkey, "PUBLIC") \/ KeyAlg(fkey.id) # "rsa"
  THEN Throw
  ELSE Ok(signature.s = SigB64(fkey.id, data))

\* try { a } catch { b }
orElse(a, b) == IF a.t = "ok" THEN a ELSE b
\* the try/catch of the signing steps: Ed25519 first, SHA-256 on a throw
signEither(data, fkey, nullRsaThrows) ==
  orElse(cryptoSignNull(data, fkey, nullRsaThrows), createSignSha256(data, fkey))

\* ---------------------------------------------------------- identity codec
\* encryptEmail: AES-256-CBC under scrypt(secret, 'salt'), fresh IV, iv:hex
\* a codec that leaves the address as it is
encryptEmailPlain(email, secretKey, iv) == email
\* a codec that leaves the IV out of the token
encryptEmailNoIv(email, secretKey, iv) == <<CtHex(secretKey, iv, email)>>
encryptEmail(email, secretKey, iv) ==
  <<IvHex(iv), Colon, CtHex(secretKey, iv, email)>>

\* a codec that opens every text
decryptEmailLenient(encryptedData, secretKey) == Str(Email(1))
\* decryptEmail: the first two ':' parts are the IV and the cipher text, any
\* further part is dropped by the destructuring; every throw gives null.
\* Decoding 'hex' stops at the first character that is no hex digit.  A
\* cipher text opened with another key or IV fails its padding check.
decryptEmail(encryptedData, secretKey) ==
  LET isHex(c) == c.k \in {"ivhex", "cthex"}
      \* Buffer.from(s, 'hex') and decipher.update(s, 'hex', ...)
      fromHex(s) ==
        SubSeq(s, 1, IF \A i \in 1..Len(s) : isHex(s[i]) THEN Len(s)
                     ELSE (CHOOSE i \in 1..Len(s) :
                             ~isHex(s[i]) /\ \A j \in 1..(i - 1) : isHex(s[j])) - 1)
      final(iv, data) ==
        IF Len(iv) # 1 \/ iv[1].k # "ivhex" THEN JsNull
        ELSE IF Len(data) # 1 \/ data[1].k # "cthex" THEN JsNull
        ELSE IF data[1].a # secretKey \/ data[1].b # iv[1].a THEN JsNull
        ELSE Str(data[1].m)
      decipher(ivHex, encrypted) ==
        IF ivHex = <<>> \/ encrypted = <<>> THEN JsNull
        ELSE final(fromHex(ivHex), fromHex(encrypted))
      parts(pieces) ==
        decipher(pieces[1], IF Len(pieces) >= 2 THEN pieces[2] ELSE <<>>)
  IN  IF encryptedData.t # "str" THEN JsNull
      ELSE parts(split(encryptedData.s, Colon))


\* ------------------------------------------------------------ processImage
\* what processImage hands back: the bytes, and which return statement gave
\* them (the path is not visible to the caller, only the bytes are)
Out(bytes, path) == Ok([bytes |-> bytes, path |-> path])

\* an insert that leaves the image as it was
withDescriptionDropped(buffer, text, other) == buffer
withDescription(buffer, text, other) ==
  [buffer EXCEPT !.exif = <<Exif(<<text>>, TRUE, other)>>]

\* Array.prototype.push(item)
pushLast(a, item) == a \o <<item>>
\* Array.prototype.splice(-1, 0, item): insert before the last element
spliceBeforeLast(a, item) ==
  IF Len(a) = 0 THEN <<item>>
  ELSE SubSeq(a, 1, Len(a) - 1) \o <<item>> \o <<a[Len(a)]>>

\* a JPEG branch that returns the image of step 4, with the placeholder
processJpegPlaceholder(buffer, encryptedEmail, timestamp, fkey, nullRsaThrows) ==
  Out(withDescription(buffer,
        JSONstringify(Payload(Str(<<>>), Str(encryptedEmail), Str(timestamp),
                              Str(Sha256Hex(buffer)), Undef)), 0),
      "jpeg-signed")
\* a JPEG branch that answers an embed failure with the image stripped of
\* its EXIF block
processJpegStripping(buffer, encryptedEmail, timestamp, fkey, nullRsaThrows) ==
  Out([buffer EXCEPT !.exif = <<>>, !.exifOk = TRUE], "jpeg-fallback")
\* JPEG branch (lines 222-298).  piexif.load failing gives an empty
\* dictionary; a failing piexif.dump / piexif.insert, or a failing second
\* signing step, lands in the catch that returns the original buffer.
processJpeg(buffer, encryptedEmail, timestamp, fkey, nullRsaThrows) ==
  LET \* steps 7 and 8: the real signature replaces the empty one and the
      \* EXIF block is inserted into the original image
      final(placeholder, other, signature) ==
        IF signature.t = "throw" THEN Out(buffer, "jpeg-fallback")
        ELSE Out(withDescription(buffer,
                   JSONstringify([placeholder EXCEPT !.signature = Str(Val(signature))]),
                   other),
                 "jpeg-signed")
      \* steps 4 to 6: the image with the placeholder is what is signed
      sign(placeholder, other) ==
        final(placeholder, other,
          signEither(Bytes(withDescription(buffer, JSONstringify(placeholder), other))
                       \o encryptedEmail \o timestamp,
                     fkey, nullRsaThrows))
  IN  IF ~buffer.exifOk THEN Out(buffer, "jpeg-fallback")
      ELSE sign(Payload(Str(<<>>), Str(encryptedEmail), Str(timestamp),
                        Str(Sha256Hex(buffer)), Undef),
                IF buffer.exif # <<>> /\ buffer.exif[1].tiffOk
                THEN buffer.exif[1].other ELSE 0)

\* PNG branch (lines 299-379).  A throw of extract, or of the second signing
\* step, lands in the catch that returns the original buffer.
processPng(buffer, encryptedEmail, timestamp, fkey, nullRsaThrows) ==
  LET \* the Signature chunk goes before IEND and the chunks are re-encoded
      final(chunksWithoutSignature, hash, signature) ==
        IF signature.t = "throw" THEN Out(buffer, "png-fallback")
        ELSE Out(encode(spliceBeforeLast(chunksWithoutSignature,
                   encodeText("Signature",
                     JSONstringify(Payload(Str(Val(signature)), Str(encryptedEmail),
                                           Str(timestamp), Str(hash), Undef))))),
                 "png-signed")
      \* the re-encoded chunks without Signature are what is signed
      sign(chunksWithoutSignature, normalizedBuffer) ==
        final(chunksWithoutSignature, Sha256Hex(normalizedBuffer),
              signEither(Bytes(normalizedBuffer) \o encryptedEmail \o timestamp,
                         fkey, nullRsaThrows))
      filter(chunksWithoutSignature) ==
        sign(chunksWithoutSignature, encode(chunksWithoutSignature))
      extracted(chunks) ==
        IF chunks.t = "throw" THEN Out(buffer, "png-fallback")
        ELSE filter(SelectSeq(Val(chunks), NotSignatureChunk))
  IN  extracted(extract(buffer))

\* processImage without the first signature over the raw buffer
processImageUnchecked(buffer, userEmail, privateKey, secretKey, now, iv, nullRsaThrows) ==
  LET byFormat(metadata, encryptedEmail, timestamp, fkey) ==
        IF metadata.t = "throw" THEN Throw
        ELSE IF Val(metadata) = "jpeg"
             THEN processJpeg(buffer, encryptedEmail, timestamp, fkey, nullRsaThrows)
        ELSE IF Val(metadata) = "png"
             THEN processPng(buffer, encryptedEmail, timestamp, fkey, nullRsaThrows)
        ELSE Out(buffer, "other")
  IN  byFormat(sharpMetadata(buffer), encryptEmail(userEmail, secretKey, iv),
               toISOString(now), formatKey(privateKey, "PRIVATE"))
\* processImage that writes an EXIF description into a file of any format
processImageAnyFormat(buffer, userEmail, privateKey, secretKey, now, iv, nullRsaThrows) ==
  processJpeg(buffer, encryptEmail(userEmail, secretKey, iv), toISOString(now),
              formatKey(privateKey, "PRIVATE"), nullRsaThrows)
\* processImage(file, userEmail, privateKey): the token and the timestamp are
\* made once, the key is formatted once
processImage(buffer, userEmail, privateKey, secretKey, now, iv, nullRsaThrows) ==
  LET \* the branch on sharp's format
      byFormat(metadata, encryptedEmail, timestamp, fkey) ==
        IF metadata.t = "throw" THEN Throw
        ELSE IF Val(metadata) = "jpeg"
             THEN processJpeg(buffer, encryptedEmail, timestamp, fkey, nullRsaThrows)
        ELSE IF Val(metadata) = "png"
             THEN processPng(buffer, encryptedEmail, timestamp, fkey, nullRsaThrows)
        ELSE Out(buffer, "other")
      \* the first signature, over the raw buffer: made before the format is
      \* looked at and not used afterwards, but its failure is rethrown
      firstSignature(encryptedEmail, timestamp, fkey) ==
        IF signEither(Bytes(buffer) \o encryptedEmail \o timestamp, fkey,
                      nullRsaThrows).t = "throw"
        THEN Throw
        ELSE byFormat(sharpMetadata(buffer), encryptedEmail, timestamp, fkey)
  IN  firstSignature(encryptEmail(userEmail, secretKey, iv), toISOString(now),
                     formatKey(privateKey, "PRIVATE"))

\* --------------------------------------------------------- the sign route
AllowedTypes == {"image/jpeg", "image/png", "image/gif", "image/webp"}
MimeOf(fmt) == "image/" \o fmt

\* a multipart request: the 'image' part (or none), its declared type, and
\* whether its size is above MAX_FILE_SIZE
Request(file, type, tooBig) == [file |-> file, type |-> type, tooBig |-> tooBig]

\* validateImage of the sign route: size, declared type, then sharp
validateImageSharp(req) ==
  IF req.tooBig THEN "File size too large"
  ELSE IF req.type \notin AllowedTypes THEN "Invalid file type"
  ELSE IF sharpMetadata(req.file[1]).t = "throw" THEN "Invalid or corrupted image file"
  ELSE ""

AuditEvent(event, userId) == [event |-> event, userId |-> userId]

NoSignInfo ==
  [input |-> <<>>, identity |-> <<>>, privateKey |-> <<>>, secret |-> 0,
   now |-> 0, path |-> "none"]
SignResponse(status, body, error, disposition, info) ==
  [status |-> status, body |-> body, error |-> error,
   disposition |-> disposition, info |-> info]
Served(resp, events) == [resp |-> resp, audit |-> events]
\* an error response that is recorded as a SIGN audit event all the same
SignErrorAudited(status, error) ==
  Served(SignResponse(status, <<>>, error, "", NoSignInfo),
         <<AuditEvent("SIGN", <<Word("anonymous")>>)>>)
SignError(status, error) ==
  Served(SignResponse(status, <<>>, error, "", NoSignInfo), <<>>)

\* POST of the sign route: the response and the audit events it records.
\* session is <<>> (no session, or one without e-mail) or <<email>>.
signPOST(session, req, e, now, iv, nullRsaThrows) ==
  LET \* after processImage: the SIGN audit event and the 200 response, or
      \* the 500 of the catch
      respond(signedImageBuffer) ==
        IF signedImageBuffer.t = "throw" THEN SignError(500, "Internal server error")
        ELSE Served(SignResponse(200, <<Val(signedImageBuffer).bytes>>, "",
                      "attachment; filename=signed_",
                      [input |-> req.file, identity |-> session,
                       privateKey |-> e.SIGNING_PRIVATE_KEY,
                       secret |-> e.ENCRYPTION_SECRET, now |-> now,
                       path |-> Val(signedImageBuffer).path]),
                    <<AuditEvent("SIGN", session[1])>>)
      validated(validationError) ==
        IF validationError # "" THEN SignError(400, validationError)
        ELSE respond(processImage(req.file[1], session[1], e.SIGNING_PRIVATE_KEY,
                                  e.ENCRYPTION_SECRET, now, iv, nullRsaThrows))
  IN  IF session = <<>> THEN SignError(401, "Authentication required")
      ELSE IF req.file = <<>> THEN SignError(400, "No image file provided")
      ELSE validated(validateImageSharp(req))

\* ------------------------------------------------------------- extraction
\* the part of extractMetadata shared by both verify handlers: the text of
\* the EXIF description, or of the first Signature tEXt chunk, that is JSON
\* or starts with 'signed:'; <<>> stands for null
descriptionOf(buffer) ==
  IF ~buffer.exifOk \/ buffer.exif = <<>> THEN <<>>
  ELSE IF ~buffer.exif[1].tiffOk THEN <<>>
  ELSE buffer.exif[1].desc
IsOurText(text) == JSONparse(text).t = "ok" \/ textStartsWithSigned(text)
CarriesSignatureText(chunk) ==
  LET ours(decoded) ==
        /\ decoded.t = "ok"
        /\ Val(decoded).keyword = "Signature"
        /\ Val(decoded).text # <<>>
        /\ IsOurText(Val(decoded).text[1])
  IN  chunk.name = "tEXt" /\ ours(decodeText(chunk))
extractByFormat(buffer, format) ==
  LET jpegText(desc) == IF desc # <<>> /\ IsOurText(desc[1]) THEN desc ELSE <<>>
      firstText(hits) == IF hits = <<>> THEN <<>> ELSE hits[1].text
      pngText(chunks) ==
        IF chunks.t = "throw" THEN <<>>
        ELSE firstText(SelectSeq(Val(chunks), CarriesSignatureText))
  IN  IF format = "jpeg" THEN jpegText(descriptionOf(buffer))
      ELSE IF format = "png" THEN pngText(extract(buffer))
      ELSE <<>>

\* extractMetadata of the handler in sign/route.ts: format by magic number
extractMetadataFT(buffer) == Ok(extractByFormat(buffer, fileTypeFromBuffer(buffer)))
\* extractMetadata of verify/route.ts: format by sharp, outside any try
extractMetadataSharp(buffer) ==
  LET then(metadata) ==
        IF metadata.t = "throw" THEN Throw
        ELSE Ok(extractByFormat(buffer, Val(metadata)))
  IN  then(sharpMetadata(buffer))

\* -------------------------------------------------- VerificationResult
Result(verified, email, timestamp, error, details) ==
  [verified |-> verified, email |-> email, timestamp |-> timestamp,
   error |-> error, details |-> details]
\* a failure result that names a signer all the same
FailureNamingSigner(error, details) ==
  Result(FALSE, Str(Email(1)), Str(toISOString(1)), error, details)
Failure(error, details) == Result(FALSE, Undef, Undef, error, details)
Returns(result, events) == Ok([result |-> result, events |-> events])

\* --------------------------------- verifyImage, sign/route.ts lines 613-861
\* parts.find(p => p.startsWith(word + ':'))?.split(':')[1] || ''
LegacyField(parts, word) ==
  LET second(pieces) == IF Len(pieces) >= 2 THEN Str(pieces[2]) ELSE Str(<<>>)
      of(found) == IF found = <<>> THEN Str(<<>>) ELSE second(split(found[1], Colon))
  IN  of(SelectSeq(parts, LAMBDA q : startsWith(q, <<Word(word), Colon>>)))
\* the metadata text parsed: legacy comma form (lines 631-651), or JSON
parseMetadata(text) ==
  LET legacy(parts) ==
        Payload(LegacyField(parts, "signature"), LegacyField(parts, "signed"),
                LegacyField(parts, "timestamp"), Undef, Undef)
  IN  IF textStartsWithSigned(text)
      THEN Ok([t |-> "obj", obj |-> legacy(split(text.raw, Comma))])
      ELSE JSONparse(text)

\* verification that takes the file as it stands, Signature chunk included
originalBufferAsIs(currentBuffer) == currentBuffer
\* the buffer verifyImage takes as the one that was signed (lines 755-783)
originalBufferOf(currentBuffer) ==
  LET reencoded(chunks) ==
        IF chunks.t = "throw" THEN currentBuffer
        ELSE encode(SelectSeq(Val(chunks), NotSignatureChunk))
  IN  IF fileTypeFromBuffer(currentBuffer) = "png"
      THEN reencoded(extract(currentBuffer))
      ELSE currentBuffer

Unknown == <<Word("unknown")>>
Anonymous == <<Word("anonymous")>>

\* the try of verifyImage; a Throw is an exception leaving the try block
verifyImageTry(buffer, e, nullRsaThrows) ==
  LET \* the three returns that follow the two verification attempts
      verdict(m, email, ed, rsa) ==
        IF ed.t = "throw" /\ rsa.t = "throw"
        THEN Returns(Failure("Unable to verify signature with either Ed25519 or RSA methods.",
                             "Ed25519: ..., RSA: ..."), <<>>)
        ELSE IF (IF ed.t = "ok" THEN Val(ed) ELSE Val(rsa))
        THEN Returns(Result(TRUE, email, m.timestamp, "", ""),
                     <<AuditEvent("VERIFY_SUCCESS", email.s)>>)
        ELSE Returns(Failure("Invalid signature. The image content or metadata may have been tampered with.", ""),
                     <<AuditEvent("VERIFY_FAIL", email.s)>>)
      checkSignature(m, email, dataToSign, formattedPublicKey) ==
        verdict(m, email,
                cryptoVerifyNull(dataToSign, formattedPublicKey, m.signature, nullRsaThrows),
                createVerifySha256(dataToSign, formattedPublicKey, m.signature))
      \* the public key, then the payload rebuilt from the current file;
      \* .includes and Buffer.from throw on a value that is not a string
      withKey(m, email, publicKeyRaw) ==
        IF publicKeyRaw.t # "str" \/ m.timestamp.t # "str" THEN Throw
        ELSE checkSignature(m, email,
               Bytes(originalBufferOf(buffer)) \o m.email.s \o m.timestamp.s,
               formatKey(publicKeyRaw.s, "PUBLIC"))
      \* line 711: the key in the metadata if there is one, else the configured one
      decrypted(m, email) ==
        IF ~Truthy(email)
        THEN Returns(Failure("Failed to decrypt email from signature.", ""), <<>>)
        ELSE withKey(m, email,
               IF Truthy(m.publicKey) THEN m.publicKey ELSE Str(e.SIGNING_PUBLIC_KEY))
      fields(m) ==
        IF ~Truthy(m.email) \/ ~Truthy(m.timestamp) \/ ~Truthy(m.signature)
        THEN Returns(Failure("Incomplete signature data in image metadata.", ""), <<>>)
        ELSE decrypted(m, decryptEmail(m.email, e.ENCRYPTION_SECRET))
      \* lines 655-669: the property reads of the log call are inside the
      \* try, so the document null ends in its catch as well
      parsed(metadata) ==
        IF metadata.t = "throw" \/ Val(metadata).t = "null"
        THEN Returns(Failure("Failed to parse signature metadata.", ""), <<>>)
        ELSE fields(Val(metadata).obj)
      extracted(metadata) ==
        IF metadata = <<>>
        THEN Returns(Failure("No signature metadata found in the image.", ""), <<>>)
        ELSE parsed(parseMetadata(metadata[1]))
  IN  extracted(Val(extractMetadataFT(buffer)))

\* verifyImage without its catch
verifyImageNoCatch(buffer, e, nullRsaThrows) ==
  verifyImageTry(buffer, e, nullRsaThrows)
\* verifyImage: the try and its catch (lines 851-860)
verifyImage(buffer, e, nullRsaThrows) ==
  LET caught(tried) ==
        IF tried.t = "throw"
        THEN Returns(Failure("An unexpected error occurred during image verification.",
                             "errorMessage"),
                     <<AuditEvent("VERIFY_FAIL", Unknown)>>)
        ELSE tried
  IN  caught(verifyImageTry(buffer, e, nullRsaThrows))

\* --------------------------------- verifyImage, verify/route.ts lines 203-379
\* addresses 1 and 2 have the shape local@domain.tld; a session string of
\* another shape (id 3) does not match the pattern
WellFormedIds == {1, 2}
\* /^[^\s@]+@[^\s@]+\.[^\s@]+$/.test(s)
emailRegexTest(s) == Len(s) = 1 /\ s[1].k = "addr" /\ s[1].a \in WellFormedIds
\* !isNaN(new Date(v).getTime())
ValidDate(v) ==
  \/ v.t = "num"
  \/ v.t = "str" /\ \E n \in 0..(MaxTime + 1) :
                      v.s = toISOString(n) \/ v.s = DateOnly(n)

\* the characters of the metadata text: a JSON document starts with '{' or
\* with 'null', never with 'signed'
charsOf(text) == IF text.kind = "raw" THEN text.raw ELSE <<Word("json")>>

\* the try of verifyImage in verify/route.ts
verifyRouteTry(buffer, e, nullRsaThrows) ==
  LET \* lines 323-369: decrypt, check the shape of address and date, accept
      identity(timestamp, decryptedEmail) ==
        IF ~Truthy(decryptedEmail)
        THEN Failure("Decryption failed", "Unable to decrypt the embedded email address")
        ELSE IF ~emailRegexTest(decryptedEmail.s)
        THEN Failure("Invalid email format",
                     "The decrypted data does not contain a valid email address")
        ELSE IF ~ValidDate(timestamp)
        THEN Failure("Invalid timestamp", "The signature contains an invalid timestamp")
        ELSE Result(TRUE, decryptedEmail, timestamp, "",
                    "Image signature successfully verified")
      \* lines 285-312: a throw of both attempts leaves isValidSignature false
      blockVerdict(ed, rsa) ==
        IF (IF ed.t = "ok" THEN Val(ed) ELSE IF rsa.t = "ok" THEN Val(rsa) ELSE FALSE)
        THEN <<>>
        ELSE <<Failure("Invalid cryptographic signature",
                       "The digital signature could not be verified with the public key")>>
      blockVerify(dataToSign, formattedPublicKey, digitalSignature) ==
        blockVerdict(cryptoVerifyNull(dataToSign, formattedPublicKey, digitalSignature,
                                      nullRsaThrows),
                     createVerifySha256(dataToSign, formattedPublicKey, digitalSignature))
      \* lines 246-321: the check of the signature over the file as uploaded,
      \* with the configured key; <<>> when it passes, else the failure
      \* returned.  Buffer.from of a value that is not a string throws into
      \* the outer catch of the block.
      signatureBlock(encryptedEmail, timestamp, digitalSignature) ==
        IF encryptedEmail.t # "str" \/ timestamp.t # "str"
        THEN <<Failure("Signature verification failed",
                       "An error occurred while verifying the cryptographic signature")>>
        ELSE blockVerify(Bytes(buffer) \o encryptedEmail.s \o timestamp.s,
                         formatKey(e.SIGNING_PUBLIC_KEY, "PUBLIC"), digitalSignature)
      afterBlock(encryptedEmail, timestamp, blocked) ==
        IF blocked # <<>> THEN blocked[1]
        ELSE identity(timestamp, decryptEmail(encryptedEmail, e.ENCRYPTION_SECRET))
      \* line 246: the block runs only if (digitalSignature)
      fields(encryptedEmail, timestamp, digitalSignature) ==
        afterBlock(encryptedEmail, timestamp,
          IF Truthy(digitalSignature)
          THEN signatureBlock(encryptedEmail, timestamp, digitalSignature)
          ELSE <<>>)
      \* lines 230-243: the legacy form is exactly signed:encryptedEmail:timestamp
      legacy(signatureParts) ==
        IF Len(signatureParts) # 3 \/ signatureParts[1] # <<Word("signed")>>
        THEN Failure("Invalid signature format",
                     "The image contains unrecognized signature data")
        ELSE fields(Str(signatureParts[2]), Str(signatureParts[3]), Undef)
      \* lines 220-229: JSON with a truthy email and timestamp, else legacy
      parsed(signature, payload) ==
        IF /\ payload.t = "ok" /\ Val(payload).t = "obj"
           /\ Truthy(Val(payload).obj.email) /\ Truthy(Val(payload).obj.timestamp)
        THEN fields(Val(payload).obj.email, Val(payload).obj.timestamp,
                    Val(payload).obj.signature)
        ELSE legacy(split(charsOf(signature), Colon))
      extracted(signature) ==
        IF signature.t = "throw" THEN Throw
        ELSE IF Val(signature) = <<>>
        THEN Ok(Failure("", "No digital signature found in image metadata"))
        ELSE Ok(parsed(Val(signature)[1], JSONparse(Val(signature)[1])))
  IN  extracted(extractMetadataSharp(buffer))
\* verifyImage of verify/route.ts: the try and its catch; this handler
\* records no event of its own
verifyImageRoute(buffer, e, nullRsaThrows) ==
  LET caught(tried) ==
        IF tried.t = "throw"
        THEN Returns(Failure("Verification failed",
                             "An error occurred while verifying the image signature"), <<>>)
        ELSE Returns(Val(tried), <<>>)
  IN  caught(verifyRouteTry(buffer, e, nullRsaThrows))

\* ------------------------------------------------------ the verify routes
\* validateImage of the handler in sign/route.ts: size, declared type, then
\* the magic number
validateImageFT(req) ==
  IF req.tooBig THEN "File size too large"
  ELSE IF req.type \notin AllowedTypes THEN "Invalid file type"
  ELSE IF MimeOf(fileTypeFromBuffer(req.file[1])) \notin AllowedTypes
  THEN "Invalid or corrupted image file (magic number mismatch)"
  ELSE ""

NoResult == Failure("", "")
VerifyResponse(route, status, result, error, file) ==
  [route |-> route, status |-> status, result |-> result, error |-> error,
   file |-> file]
\* after verifyImage: the VERIFY audit event follows the handler's own ones
\* and the result is the 200 response; a throw is the 500 of the catch
verifyRespond(route, req, verified) ==
  IF verified.t = "throw"
  THEN Served(VerifyResponse(route, 500,
                Failure("Internal server error",
                        "Unable to process the image for verification"),
                "", req.file), <<>>)
  ELSE Served(VerifyResponse(route, 200, Val(verified).result, "", req.file),
              Val(verified).events \o
                <<AuditEvent("VERIFY",
                    IF Truthy(Val(verified).result.email)
                    THEN Val(verified).result.email.s ELSE Anonymous)>>)
verifyValidated(route, req, validationError) ==
  Served(VerifyResponse(route, 400, NoResult, validationError, req.file), <<>>)
\* POST of the handler in sign/route.ts (line 404)
verifyPOST(req, e, nullRsaThrows) ==
  IF req.file = <<>>
  THEN verifyValidated("sign/route.ts", req, "No image file provided")
  ELSE IF validateImageFT(req) # ""
  THEN verifyValidated("sign/route.ts", req, validateImageFT(req))
  ELSE verifyRespond("sign/route.ts", req, verifyImage(req.file[1], e, nullRsaThrows))
\* POST of verify/route.ts (line 17)
verifyRoutePOST(req, e, nullRsaThrows) ==
  IF req.file = <<>>
  THEN verifyValidated("verify/route.ts", req, "No image file provided")
  ELSE IF validateImageSharp(req) # ""
  THEN verifyValidated("verify/route.ts", req, validateImageSharp(req))
  ELSE verifyRespond("verify/route.ts", req,
                     verifyImageRoute(req.file[1], e, nullRsaThrows))

\* ------------------------------------------------- files outside the server
\* The files a user can upload, and the changes a holder of a signed file
\* can make to it before it is verified.
aToken == encryptEmail(Email(1), 1, 1)
LegacyColon == RawText(SignedColon \o aToken \o <<Colon>> \o toISOString(1))
LegacyThree == RawText(<<Word("signed"), Colon, Word("abc"), Colon>> \o DateOnly(1))
LegacyComma ==
  RawText(SignedColon \o aToken \o <<Comma, Word("timestamp"), Colon>>
          \o toISOString(1) \o <<Comma, Word("signature"), Colon, Word("c2ln")>>)
Caption == RawText(<<Word("holiday")>>)

Inputs ==
  { Jpeg(1, <<>>, TRUE),
    Jpeg(1, <<Exif(<<Caption>>, FALSE, 1)>>, TRUE),
    Jpeg(2, <<>>, FALSE),
    Jpeg(1, <<[Exif(<<Caption>>, FALSE, 1) EXCEPT !.tiffOk = FALSE]>>, TRUE),
    Jpeg(1, <<Exif(<<LegacyColon>>, TRUE, 0)>>, TRUE),
    Jpeg(1, <<Exif(<<LegacyThree>>, TRUE, 0)>>, TRUE),
    Png(<<IHDR, IDAT(1), IEND>>),
    Png(<<IHDR, encodeText("Comment", Caption), MalformedText, IDAT(1), IEND>>),
    Png(<<IHDR, [encodeText("Comment", Caption) EXCEPT !.crcOk = FALSE], IDAT(1), IEND>>),
    Png(<<IHDR, IDAT(1), encodeText("Signature", LegacyComma), IEND>>),
    Other("gif", 1),
    Other("webp", 1),
    [Other("gif", 1) EXCEPT !.magicOk = FALSE] }

\* changes to the text of an embedded payload
TextEdits == {"hash", "dropSignature", "emptySignature", "timestamp",
              "numTimestamp", "email", "null", "garbage", "legacy"}
editText(text, kind) ==
  IF text.kind # "object" THEN text
  ELSE CASE kind = "hash" ->
              JsonText([text.obj EXCEPT !.originalBufferHash = Str(<<Word("00")>>)])
         [] kind = "dropSignature" ->
              JsonText([text.obj EXCEPT !.signature = Undef])
         [] kind = "emptySignature" ->
              JsonText([text.obj EXCEPT !.signature = Str(<<>>)])
         [] kind = "timestamp" ->
              JsonText([text.obj EXCEPT !.timestamp = Str(toISOString(0))])
         [] kind = "numTimestamp" ->
              JsonText([text.obj EXCEPT !.timestamp = Num])
         [] kind = "email" ->
              JsonText([text.obj EXCEPT !.email =
                          Str(<<IvHex(0), Colon, CtHex(0, 0, <<>>)>>)])
         [] kind = "null" -> NullText
         [] kind = "garbage" -> RawText(<<Word("garbage")>>)
         [] kind = "legacy" ->
              RawText(SignedColon \o text.obj.email.s \o <<Colon>>
                      \o text.obj.timestamp.s)
         [] OTHER -> text

SigIndex(cs) ==
  IF \E i \in 1..Len(cs) : ~NotSignatureChunk(cs[i])
  THEN CHOOSE i \in 1..Len(cs) :
         ~NotSignatureChunk(cs[i]) /\ \A j \in 1..(i - 1) : NotSignatureChunk(cs[j])
  ELSE 0
InsertAt(cs, i, c) == SubSeq(cs, 1, i - 1) \o <<c>> \o SubSeq(cs, i, Len(cs))
RemoveAt(cs, i) == SubSeq(cs, 1, i - 1) \o SubSeq(cs, i + 1, Len(cs))
Decoy == encodeText("Signature", JsonText(NoPayload))
\* the public key of an outsider who re-signs a file with a pair of their own
OutsiderPublicKey == KeyText("b64pem", "PUBLIC", 5)

FileEdits == {"chunkByte", "chunkContent", "iendCrc", "magic", "trailing",
              "sigChunkByte", "stripSig", "dupSigAfter", "dupSigBefore",
              "forge", "pixelByte", "exifCorrupt"}
\* one byte changed outside the Signature chunk: in another chunk (IEND's
\* length and CRC fields are "iendCrc"), in the first bytes, in the image data
CanonicalByteEdits == {"chunkByte", "iendCrc", "magic", "pixelByte"}


\* the payload re-signed by the outsider, their public key put beside it
forged(file, obj) ==
  JsonText([obj EXCEPT
    !.signature = Str(SigB64(OutsiderPublicKey[1].a,
                        Bytes(originalBufferOf(file)) \o obj.email.s
                        \o obj.timestamp.s)),
    !.publicKey = Str(OutsiderPublicKey)])

\* one change to a PNG file; g is the index of its Signature chunk, or 0
tamperPngAt(file, kind, i, cs, g) ==
  CASE kind = "chunkByte" /\ i \in 1..Len(cs) /\ i # g /\ cs[i].name # "IEND" ->
         [file EXCEPT !.chunks[i].data = @ + 1, !.chunks[i].crcOk = FALSE]
    [] kind = "chunkContent" /\ i \in 1..Len(cs) /\ i # g /\ cs[i].name = "IDAT" ->
         [file EXCEPT !.chunks[i].data = @ + 1]
    [] kind = "iendCrc" /\ cs # <<>> /\ cs[Len(cs)].name = "IEND" ->
         [file EXCEPT !.chunks[Len(cs)].crcOk = FALSE]
    [] kind = "magic" -> [file EXCEPT !.magicOk = FALSE]
    [] kind = "trailing" -> [file EXCEPT !.tail = 1]
    [] kind = "sigChunkByte" /\ g # 0 -> [file EXCEPT !.chunks[g].crcOk = FALSE]
    [] kind = "stripSig" /\ g # 0 -> [file EXCEPT !.chunks = RemoveAt(cs, g)]
    [] kind = "dupSigAfter" /\ g # 0 ->
         [file EXCEPT !.chunks = InsertAt(cs, g + 1, Decoy)]
    [] kind = "dupSigBefore" /\ g # 0 ->
         [file EXCEPT !.chunks = InsertAt(cs, g, Decoy)]
    [] kind = "forge" /\ g # 0 /\ cs[g].text[1].kind = "object" ->
         [file EXCEPT !.chunks[g].text[1] = forged(file, @.obj)]
    [] kind \in TextEdits /\ g # 0 ->
         [file EXCEPT !.chunks[g].text[1] = editText(@, kind)]
    [] OTHER -> file
tamperPng(file, kind, i) == tamperPngAt(file, kind, i, file.chunks, SigIndex(file.chunks))

tamperJpeg(file, kind) ==
  CASE kind = "pixelByte" -> [file EXCEPT !.px = @ + 1]
    [] kind = "magic" -> [file EXCEPT !.magicOk = FALSE]
    [] kind = "exifCorrupt" -> [file EXCEPT !.exifOk = FALSE]
    [] kind = "forge" /\ file.exif # <<>> /\ file.exif[1].desc # <<>>
         /\ file.exif[1].desc[1].kind = "object" ->
         [file EXCEPT !.exif[1].desc[1] = forged(file, @.obj)]
    [] kind \in TextEdits /\ file.exif # <<>> /\ file.exif[1].desc # <<>> ->
         [file EXCEPT !.exif[1].desc[1] = editText(@, kind)]
    [] OTHER -> file

tamper(file, kind, i) ==
  IF file.fmt = "png" THEN tamperPng(file, kind, i)
  ELSE IF file.fmt = "jpeg" THEN tamperJpeg(file, kind)
  ELSE IF kind = "pixelByte" THEN [file EXCEPT !.px = @ + 1]
  ELSE file

\* ------------------------------------------------------------- deployment
\* getValidatedEnv(): the configuration a process runs with
Env(private, public, secret) ==
  [SIGNING_PRIVATE_KEY |-> private, SIGNING_PUBLIC_KEY |-> public,
   ENCRYPTION_SECRET |-> secret]
PairEnv(form, id, secret) ==
  Env(KeyText(form, "PRIVATE", id), KeyText(form, "PUBLIC", id), secret)
Envs ==
  { PairEnv("b64pem", 1, 1), PairEnv("rawb64", 2, 1), PairEnv("b64pem", 3, 1),
    PairEnv("b64pem", 4, 1), PairEnv("rawb64", 2, 2), PairEnv("pem", 1, 1) }

\* ---------------------------------------------------------- state machine
Identities == {Email(1), Email(3)}
Sessions == {<<>>} \cup {<<id>> : id \in Identities}

\* the file the client holds: where it came from and the one change made
Held(file, from, edit) == [file |-> file, from |-> from, edit |-> edit]
NoHeld == Held(<<>>, "none", "none")
\* the file a run of sign requests began with, and how many of them were
\* made for a file the sign route had returned
NoChain == [first |-> <<>>, n |-> 0]
\* the ImageUpload component as first rendered (ImageUpload.tsx 229-237):
\* no file (0), no preview, nothing uploading; requests holds the sign
\* requests that were sent and have not completed, started counts them
NoUpload ==
  [selectedFile |-> 0, previewUrl |-> 0, input |-> 0,
   uploading |-> FALSE, error |-> "", success |-> FALSE,
   requests |-> {}, started |-> 0, download |-> 0]
\* the ImageVerification component as first rendered (ImageVerification.tsx
\* 13-20); shown is the number of the request whose outcome is held in
\* result or error (0 when neither is)
NoVerification ==
  [selectedFile |-> 0, previewUrl |-> 0, input |-> 0,
   verifying |-> FALSE, error |-> "", result |-> "",
   requests |-> {}, started |-> 0, shown |-> 0]
\* ImageVerification after an outcome of one request was stored
Settled(v, r, error, result) ==
  [v EXCEPT !.requests = @ \ {r}, !.verifying = FALSE, !.error = error,
            !.result = result, !.shown = r.id]
NoSignResponse == SignResponse(0, <<>>, "", "", NoSignInfo)
NoVerifyResponse == VerifyResponse("none", 0, NoResult, "", <<>>)

\* the requests a client can make for a file
RequestsFor(file) ==
  { Request(<<file>>, MimeOf(file.fmt), FALSE),
    Request(<<file>>, "text/plain", FALSE),
    Request(<<file>>, MimeOf(file.fmt), TRUE),
    Request(<<>>, "", FALSE) }

Init ==
  /\ env \in Envs
  /\ signResp = NoSignResponse
  /\ held = NoHeld
  /\ verifyResp = NoVerifyResponse
  /\ audit = <<>>
  /\ gate = <<>>
  /\ chain = NoChain
  /\ upload = NoUpload
  /\ verification = NoVerification

\* the client receives the sign response and keeps the returned bytes
SignServed(out) ==
  /\ signResp' = out.resp
  /\ audit' = out.audit
  /\ held' = IF out.resp.status = 200
             THEN Held(out.resp.body, "signed", "none")
             ELSE NoHeld
\* a sign request is served
Sign ==
  /\ held = NoHeld
  /\ \E session \in Sessions, file \in Inputs, now \in 1..MaxTime,
        iv \in 1..MaxIv, nullRsaThrows \in BOOLEAN :
       \E req \in RequestsFor(file) :
         SignServed(signPOST(session, req, env, now, iv, nullRsaThrows))
  /\ UNCHANGED <<env, verifyResp, gate, chain, upload, verification>>

\* the client selects a file that did not come from the sign route
Pick ==
  /\ held = NoHeld
  /\ \E file \in Inputs : held' = Held(<<file>>, "picked", "none")
  /\ UNCHANGED <<env, signResp, verifyResp, audit, gate, chain, upload, verification>>

\* the process is restarted with another configuration
Redeploy ==
  /\ held.from = "signed" /\ held.edit = "none"
  /\ verifyResp = NoVerifyResponse
  /\ signResp.info.privateKey = env.SIGNING_PRIVATE_KEY
  /\ signResp.info.secret = env.ENCRYPTION_SECRET
  /\ \E e \in Envs : e # env /\ env' = e
  /\ UNCHANGED <<signResp, held, verifyResp, audit, gate, chain, upload, verification>>

\* the holder of a signed file makes one change to it
Tampered(changed, kind) ==
  /\ changed # held.file[1]
  /\ held' = [held EXCEPT !.file = <<changed>>, !.edit = kind]
Tamper ==
  /\ held.from = "signed" /\ held.edit = "none"
  /\ verifyResp = NoVerifyResponse
  /\ \E kind \in FileEdits \cup TextEdits, i \in 1..(Len(held.file[1].chunks) + 1) :
       Tampered(tamper(held.file[1], kind, i), kind)
  /\ UNCHANGED <<env, signResp, verifyResp, audit, gate, chain, upload, verification>>

VerifyServed(out) ==
  /\ verifyResp' = out.resp
  /\ audit' = out.audit
\* a verify request for the held file, served by the handler of sign/route.ts
Verify ==
  /\ held.file # <<>>
  /\ verifyResp = NoVerifyResponse
  /\ \E req \in RequestsFor(held.file[1]), nullRsaThrows \in BOOLEAN :
       VerifyServed(verifyPOST(req, env, nullRsaThrows))
  /\ UNCHANGED <<env, signResp, held, gate, chain, upload, verification>>

\* the same request served by verify/route.ts
VerifyRoute ==
  /\ held.file # <<>>
  /\ verifyResp = NoVerifyResponse
  /\ \E req \in RequestsFor(held.file[1]), nullRsaThrows \in BOOLEAN :
       VerifyServed(verifyRoutePOST(req, env, nullRsaThrows))
  /\ UNCHANGED <<env, signResp, held, gate, chain, upload, verification>>

\* the client starts over
Reset ==
  /\ verifyResp # NoVerifyResponse
  /\ signResp' = NoSignResponse
  /\ held' = NoHeld
  /\ verifyResp' = NoVerifyResponse
  /\ audit' = <<>>
  /\ UNCHANGED <<env, gate, chain, upload, verification>>

Next == Sign \/ Pick \/ Redeploy \/ Tamper \/ Verify \/ VerifyRoute \/ Reset

Spec == Init /\ [][Next]_vars

\* ---------------------------------------------------------------- re-sign
\* the client sends the PNG the sign route returned to the sign route again
\* (a JPEG signed again carries the earlier signature inside the signed
\* bytes; its runs are not followed here)
Resign ==
  LET \* a refusal ends the run of requests
      served(out) ==
        /\ SignServed(out)
        /\ chain' = IF out.resp.status # 200 THEN NoChain
                    ELSE [first |-> IF chain.n = 0 THEN signResp.info.input
                                    ELSE chain.first,
                          n |-> chain.n + 1]
  IN  /\ held.from = "signed" /\ held.edit = "none"
      /\ held.file[1].fmt = "png"
      /\ verifyResp = NoVerifyResponse
      /\ chain.n < MaxResign
      /\ \E session \in Sessions, now \in 1..MaxTime, iv \in 1..MaxIv,
            nullRsaThrows \in BOOLEAN :
           \E req \in RequestsFor(held.file[1]) :
             served(signPOST(session, req, env, now, iv, nullRsaThrows))
      /\ UNCHANGED <<env, verifyResp, gate, upload, verification>>
ResignNext == Sign \/ Resign \/ Verify \/ VerifyRoute
ResignSpec == Init /\ [][ResignNext]_vars

\* ------------------------------------------------------------- middleware
\* src/middleware.ts.  A pathname is a sequence of atoms, '/' an atom of its
\* own; a token is <<>> (null) or <<address>>.
Slash == At("/", 0, 0, 0, <<>>)
publicRoutes ==
  << <<Slash>>,
     <<Slash, Word("auth"), Slash, Word("signin")>>,
     <<Slash, Word("auth"), Slash, Word("error")>>,
     <<Slash, Word("api"), Slash, Word("auth")>> >>
\* callbacks.authorized({ token, req })
authorized(token, pathname) ==
  LET isPublicRoute ==
        \E r \in 1..Len(publicRoutes) : startsWith(pathname, publicRoutes[r])
  IN  IF isPublicRoute THEN TRUE ELSE token # <<>>
\* config.matcher: every path but those that begin with api/auth,
\* _next/static, _next/image, favicon.ico or public
matcher(pathname) ==
  /\ startsWith(pathname, <<Slash>>)
  /\ \A skipped \in { <<Word("api"), Slash, Word("auth")>>,
                       <<Word("_next"), Slash, Word("static")>>,
                       <<Word("_next"), Slash, Word("image")>>,
                       <<Word("favicon.ico")>>,
                       <<Word("public")>> } :
       ~startsWith(Tail(pathname), skipped)
\* withAuth: on a matched path the request goes on when authorized returns
\* true and is redirected to the sign-in page otherwise
withAuth(token, pathname) ==
  [pathname |-> pathname, token |-> token, matched |-> matcher(pathname),
   outcome |-> IF matcher(pathname) /\ ~authorized(token, pathname)
               THEN "redirect" ELSE "next"]
Pathnames ==
  { <<Slash>>,
    <<Slash, Word("auth"), Slash, Word("signin")>>,
    <<Slash, Word("auth"), Slash, Word("error")>>,
    <<Slash, Word("api"), Slash, Word("auth"), Slash, Word("session")>>,
    <<Slash, Word("api"), Slash, Word("sign")>>,
    <<Slash, Word("api"), Slash, Word("verify")>>,
    <<Slash, Word("verify")>>,
    <<Slash, Word("_next"), Slash, Word("static"), Slash, Word("app.js")>>,
    <<Slash, Word("favicon.ico")>>,
    <<Slash, Word("public"), Slash, Word("logo.png")>> }
\* a request reaches the middleware
Middleware ==
  /\ Len(gate) < MaxRequests
  /\ \E token \in {<<>>} \cup {<<id>> : id \in Identities}, pathname \in Pathnames :
       gate' = Append(gate, withAuth(token, pathname))
  /\ UNCHANGED <<env, signResp, held, verifyResp, audit, chain, upload, verification>>
GateNext == Middleware
GateSpec == Init /\ [][GateNext]_vars

\* ================================================================ properties
\* the file sent to the sign route, when it answered 200
Input == signResp.info.input[1]
\* the client holds what the sign route returned, unchanged or changed once
SignedHeld == held.from = "signed" /\ signResp.status = 200
Untouched == held.edit = "none"
\* the process still runs with the key pair and secret it signed with
SameDeployment ==
  /\ signResp.info.privateKey = env.SIGNING_PRIVATE_KEY
  /\ signResp.info.secret = env.ENCRYPTION_SECRET
\* a verify handler answered with a VerificationResult
Answered(route) == verifyResp.route = route /\ verifyResp.status = 200
\* the metadata text the held file carries, as both extractMetadata read it
Embedded == extractByFormat(held.file[1], held.file[1].fmt)
NoSignatureFound ==
  \/ /\ verifyResp.route = "sign/route.ts"
     /\ verifyResp.result.error = "No signature metadata found in the image."
  \/ /\ verifyResp.route = "verify/route.ts"
     /\ verifyResp.result.details = "No digital signature found in image metadata"

\* C1: PNG round trip.  A PNG that png-chunks-extract reads, signed for any
\* identity with a usable key pair and verified by the handler of
\* sign/route.ts under the same key pair and secret, gives verified = true
\* and the e-mail of the identity that signed.
C1_PngRoundTrip ==
  ( /\ SignedHeld /\ Untouched /\ SameDeployment
    /\ Input.fmt = "png" /\ extract(Input).t = "ok"
    /\ Answered("sign/route.ts") )
  => /\ verifyResp.result.verified
     /\ verifyResp.result.email = Str(signResp.info.identity[1])
C1_Witness ==
  /\ SignedHeld /\ Untouched /\ SameDeployment
  /\ Input.fmt = "png" /\ extract(Input).t = "ok"
  /\ Answered("sign/route.ts")
  /\ verifyResp.result.verified
  /\ verifyResp.result.email = Str(Email(3))

\* C2: JPEG round trip.  A JPEG that piexif can write to, signed for any
\* identity with a usable key pair and verified under the same key pair and
\* secret, gives verified = true and the e-mail of the identity that signed.
C2_JpegRoundTrip ==
  ( /\ SignedHeld /\ Untouched /\ SameDeployment
    /\ Input.fmt = "jpeg" /\ Input.exifOk
    /\ Answered("sign/route.ts") )
  => /\ verifyResp.result.verified
     /\ verifyResp.result.email = Str(signResp.info.identity[1])

C4_AnyModificationInvalidates ==
  ( /\ SignedHeld
    /\ signResp.info.path \in {"png-signed", "jpeg-signed"}
    /\ ~Untouched
    /\ Answered("sign/route.ts") )
  => ~verifyResp.result.verified

\* C5: key mismatch.  A file signed with the private key of one pair and
\* verified while the public key of another pair is configured is reported
\* verified = false, whatever the algorithms of the two pairs.
C5_KeyMismatch ==
  ( /\ SignedHeld /\ Untouched
    /\ signResp.info.privateKey[1].a # env.SIGNING_PUBLIC_KEY[1].a
    /\ verifyResp.route # "none" )
  => ~verifyResp.result.verified
C5_Witness ==
  /\ SignedHeld /\ Untouched
  /\ signResp.info.path = "png-signed"
  /\ KeyAlg(signResp.info.privateKey[1].a) = "rsa"
  /\ KeyAlg(env.SIGNING_PUBLIC_KEY[1].a) = "rsa"
  /\ signResp.info.privateKey[1].a # env.SIGNING_PUBLIC_KEY[1].a
  /\ signResp.info.secret = env.ENCRYPTION_SECRET
  /\ Answered("sign/route.ts")
  /\ verifyResp.result.error =
       "Invalid signature. The image content or metadata may have been tampered with."

\* C6: fail closed on a missing signature.  A file whose embedded JSON
\* metadata holds no signature value (the field absent or empty) is never
\* reported verified = true, by either handler.
C6_FailClosed ==
  ( /\ held.file # <<>>
    /\ Embedded # <<>>
    /\ Embedded[1].kind \in {"object", "null"}
    /\ ~Truthy(Embedded[1].obj.signature)
    /\ verifyResp.route # "none" )
  => ~verifyResp.result.verified

\* C7: legacy tolerance.  For a file whose embedded metadata starts with
\* 'signed:', neither verifyImage throws, and no response reports
\* verified = true.
C7_LegacyTolerance ==
  ( /\ held.file # <<>>
    /\ Embedded # <<>>
    /\ textStartsWithSigned(Embedded[1]) )
  => /\ \A nullRsaThrows \in BOOLEAN :
          /\ verifyImage(held.file[1], env, nullRsaThrows).t = "ok"
          /\ verifyImageRoute(held.file[1], env, nullRsaThrows).t = "ok"
     /\ verifyResp.status # 500
     /\ ~verifyResp.result.verified
C7_Witness ==
  /\ held.from = "picked"
  /\ Embedded = <<LegacyColon>>
  /\ Answered("sign/route.ts")
  /\ ~verifyResp.result.verified
  /\ verifyResp.result.error = "Incomplete signature data in image metadata."

\* a VerificationResult was returned, and a failure says why
Populated(returned) ==
  /\ returned.t = "ok"
  /\ ~Val(returned).result.verified =>
       Val(returned).result.error # "" \/ Val(returned).result.details # ""
\* C8: verify never throws.  For every file a client can hold, under every
\* configuration, both verifyImage functions return a result, a failed one
\* with a non-empty error or details; no handler answers 500.
C8_VerifyNeverThrows ==
  /\ held.file # <<>> =>
       \A nullRsaThrows \in BOOLEAN :
         /\ Populated(verifyImage(held.file[1], env, nullRsaThrows))
         /\ Populated(verifyImageRoute(held.file[1], env, nullRsaThrows))
  /\ verifyResp.status # 500
  /\ (verifyResp.status = 200 /\ ~verifyResp.result.verified) =>
       verifyResp.result.error # "" \/ verifyResp.result.details # ""
C8_Witness ==
  /\ held.file # <<>>
  /\ verifyImageTry(held.file[1], env, TRUE).t = "throw"
  /\ Answered("sign/route.ts")
  /\ verifyResp.result.error =
       "An unexpected error occurred during image verification."

C10_UnsignedLabelled ==
  ( /\ signResp.status = 200
    /\ signResp.info.path \in {"other", "jpeg-fallback", "png-fallback"} )
  => signResp.disposition # "attachment; filename=signed_"

\* both signing paths refuse the configured private key
Rejected(privateKey, nullRsaThrows) ==
  signEither(<<>>, formatKey(privateKey, "PRIVATE"), nullRsaThrows).t = "throw"
\* C11: signing failure is fatal.  While the configured private key is
\* refused by both signing paths, every sign request of an authenticated
\* user that passes validation, whatever the format of its file, is answered
\* 500 without image bytes; and no 200 response was made under such a key.
C11_SigningFailureFatal ==
  /\ held = NoHeld =>
       \A session \in Sessions \ {<<>>}, file \in Inputs, now \in 1..MaxTime,
          iv \in 1..MaxIv, nullRsaThrows \in BOOLEAN :
         ( /\ Rejected(env.SIGNING_PRIVATE_KEY, nullRsaThrows)
           /\ validateImageSharp(Request(<<file>>, MimeOf(file.fmt), FALSE)) = "" )
         => /\ signPOST(session, Request(<<file>>, MimeOf(file.fmt), FALSE), env,
                        now, iv, nullRsaThrows).resp.status = 500
            /\ signPOST(session, Request(<<file>>, MimeOf(file.fmt), FALSE), env,
                        now, iv, nullRsaThrows).resp.body = <<>>
  /\ signResp.status = 200 =>
       \A nullRsaThrows \in BOOLEAN :
         ~Rejected(signResp.info.privateKey, nullRsaThrows)
C11_Witness ==
  /\ signResp.status = 500
  /\ signResp.body = <<>>
  /\ held = NoHeld
  /\ Rejected(env.SIGNING_PRIVATE_KEY, TRUE)

\* piexif.load throws on the EXIF block of the file (lines 231-236)
LoadFails(file) ==
  file.fmt = "jpeg" /\ file.exif # <<>> /\ ~file.exif[1].tiffOk
\* piexif.dump / piexif.insert throw on the file (lines 252-253, 286-287),
\* or png-chunks-extract does (line 305)
EmbedFails(file) ==
  \/ file.fmt = "jpeg" /\ ~file.exifOk
  \/ file.fmt = "png" /\ extract(file).t = "throw"
\* C12 as stated: when loading or serializing the JPEG metadata, or
\* processing the PNG chunks, fails during sign, the bytes returned are the
\* bytes that were uploaded.
C12_LoadOrEmbedFailureUnchanged ==
  (signResp.status = 200 /\ (LoadFails(Input) \/ EmbedFails(Input)))
  => signResp.body = <<Input>>
\* C12 amended: when serializing the JPEG metadata or processing the PNG
\* chunks fails during sign, the bytes returned are the bytes that were
\* uploaded; a failure to load the existing EXIF block is not such a
\* failure: signing goes on with an empty dictionary.
C12_EmbedFailureUnchanged ==
  (signResp.status = 200 /\ EmbedFails(Input)) => signResp.body = <<Input>>
C12_Witness ==
  /\ signResp.status = 200
  /\ Input.fmt = "png"
  /\ EmbedFails(Input)
  /\ signResp.info.path = "png-fallback"
  /\ signResp.body = <<Input>>

\* the sign route embedded a signature payload in what it returned
Embeds == signResp.status = 200 /\ signResp.info.path \in {"jpeg-signed", "png-signed"}
\* the payload a reader of the returned image finds in it
SignedPayload ==
  Val(JSONparse(extractByFormat(signResp.body[1], signResp.body[1].fmt)[1])).obj
\* C13: identity confidentiality.  In every image the sign route embeds a
\* payload in, the email field of that payload is the token encryptEmail made
\* of the signer's address under the configured secret; it is not the
\* address, and the address is no part of its characters.
C13_IdentityConfidential ==
  Embeds =>
    /\ \E iv \in 1..MaxIv :
         SignedPayload.email =
           Str(encryptEmail(signResp.info.identity[1], signResp.info.secret, iv))
    /\ SignedPayload.email # Str(signResp.info.identity[1])
    /\ \A i \in 1..Len(SignedPayload.email.s) :
         \A j \in 1..Len(signResp.info.identity[1]) :
           SignedPayload.email.s[i] # signResp.info.identity[1][j]
C13_Witness ==
  /\ Embeds
  /\ signResp.info.path = "jpeg-signed"
  /\ signResp.info.identity = <<Email(3)>>
  /\ SignedPayload.email = Str(encryptEmail(Email(3), signResp.info.secret, 1))

\* C14: identity codec round trip.  decryptEmail, given the token
\* encryptEmail made and the same secret, returns the address that was
\* encrypted: for the token embedded by every sign request served, and for
\* every address, secret and IV of the model.
C14_CodecRoundTrip ==
  /\ Embeds =>
       decryptEmail(SignedPayload.email, signResp.info.secret)
         = Str(signResp.info.identity[1])
  /\ \A email \in Identities, iv \in 1..MaxIv :
       \A secretKey \in {e.ENCRYPTION_SECRET : e \in Envs} :
         decryptEmail(Str(encryptEmail(email, secretKey, iv)), secretKey) = Str(email)
C14_Witness ==
  /\ Embeds
  /\ signResp.info.secret # PairEnv("b64pem", 1, 1).ENCRYPTION_SECRET
  /\ signResp.info.identity = <<Email(3)>>
  /\ decryptEmail(SignedPayload.email, signResp.info.secret) = Str(Email(3))

\* texts made of a token iv:data that are not two colon-separated hex parts
MalformedTokens(token) ==
  { <<token[1], token[3]>>, <<token[1]>>, <<>>,
    <<Colon, token[3]>>, <<token[1], Colon>>,
    token \o <<Colon, Word("00")>>, token \o <<Colon>>,
    <<Word("zz"), token[1], Colon, token[3]>>,
    <<token[1], Colon, Word("zz"), token[3]>>,
    <<token[1], Word("zz"), Colon, token[3]>>,
    <<token[1], Colon, token[3], Word("zz")>> }
\* C15: malformed tokens fail closed.  For the token the sign route embedded,
\* every text made of it that is not exactly two colon-separated hex parts
\* (no colon, an empty part, more than two parts, a character that is no hex
\* digit) makes decryptEmail, under the secret of the running process, return
\* null.
C15_MalformedFailClosed ==
  Embeds =>
    \A token \in MalformedTokens(SignedPayload.email.s) :
      decryptEmail(Str(token), env.ENCRYPTION_SECRET) = JsNull

\* C16: signing requires authentication.  A sign request without a session
\* e-mail is answered 401 whatever its form data is, with no image bytes and
\* no audit event; a 401 hands the client no file; every 200 was made
\* for a session e-mail; a SIGN audit event is recorded only with a 200.
C16_SignRequiresAuthentication ==
  /\ held = NoHeld =>
       \A file \in Inputs, now \in 1..MaxTime, iv \in 1..MaxIv,
          nullRsaThrows \in BOOLEAN :
         \A req \in RequestsFor(file) :
           /\ signPOST(<<>>, req, env, now, iv, nullRsaThrows).resp.status = 401
           /\ signPOST(<<>>, req, env, now, iv, nullRsaThrows).resp.body = <<>>
           /\ signPOST(<<>>, req, env, now, iv, nullRsaThrows).resp.info = NoSignInfo
           /\ signPOST(<<>>, req, env, now, iv, nullRsaThrows).audit = <<>>
  /\ signResp.status = 401 => signResp.body = <<>> /\ held.from # "signed"
  /\ signResp.status = 200 => signResp.info.identity \in Sessions \ {<<>>}
  /\ \A i \in 1..Len(audit) :
       audit[i].event = "SIGN" =>
         signResp.status = 200 /\ <<audit[i].userId>> = signResp.info.identity
C16_Witness ==
  /\ signResp.status = 401
  /\ signResp.error = "Authentication required"
  /\ signResp.body = <<>>
  /\ audit = <<>>
  /\ held = NoHeld

\* C17: key normalization accepts all supplied forms.  Whichever of the three
\* forms the configured keys have (base64 of a PEM document, the base64 key
\* body alone, PEM text), the key formatting of sign gives the private key,
\* and that of verify the public key, as the key body inside exactly one
\* BEGIN/END envelope.
C17_KeyNormalization ==
  /\ formatKey(env.SIGNING_PRIVATE_KEY, "PRIVATE").envelopes = 1
  /\ formatKey(env.SIGNING_PRIVATE_KEY, "PRIVATE").der
  /\ formatKey(env.SIGNING_PUBLIC_KEY, "PUBLIC").envelopes = 1
  /\ formatKey(env.SIGNING_PUBLIC_KEY, "PUBLIC").der

\* a tEXt chunk with keyword Signature
IsSignatureChunk(chunk) == chunk.name = "tEXt" /\ chunk.kw = "Signature"
\* the chunks of a file that are no Signature chunk, in file order
OtherChunks(file) == SelectSeq(file.chunks, LAMBDA c : ~IsSignatureChunk(c))
\* C18: PNG signature chunk placement.  The PNG the sign route returns with
\* a signature holds exactly one tEXt chunk with keyword Signature, it is the
\* chunk just before the final IEND, and the other chunks are those of the
\* input, with the same content and in the same order.
C18_PngChunkPlacement ==
  (signResp.status = 200 /\ signResp.info.path = "png-signed") =>
    /\ Cardinality({i \in 1..Len(signResp.body[1].chunks) :
                      IsSignatureChunk(signResp.body[1].chunks[i])}) = 1
    /\ Len(signResp.body[1].chunks) >= 2
    /\ signResp.body[1].chunks[Len(signResp.body[1].chunks)].name = "IEND"
    /\ IsSignatureChunk(signResp.body[1].chunks[Len(signResp.body[1].chunks) - 1])
    /\ OtherChunks(signResp.body[1]) = OtherChunks(Input)
C18_Witness ==
  /\ signResp.status = 200 /\ signResp.info.path = "png-signed"
  /\ \E i \in 1..Len(Input.chunks) : IsSignatureChunk(Input.chunks[i])
  /\ Len(signResp.body[1].chunks) = Len(Input.chunks)
  /\ IsSignatureChunk(signResp.body[1].chunks[Len(Input.chunks) - 1])
  /\ signResp.body[1].chunks # Input.chunks

\* length of a metadata text, in characters of the model
TextSize(text) ==
  LET field(v) == IF v.t = "str" THEN 2 + Len(v.s)
                  ELSE IF v.t = "undef" THEN 0 ELSE 1
  IN  CASE text.kind = "raw" -> Len(text.raw)
        [] text.kind = "null" -> 1
        [] OTHER -> 2 + field(text.obj.signature) + field(text.obj.email)
                      + field(text.obj.timestamp)
                      + field(text.obj.originalBufferHash)
                      + field(text.obj.publicKey)
\* file.size: the image data, the EXIF block with its tags, every chunk with
\* its length, type and CRC, and the bytes after the first IEND
RECURSIVE ChunksSize(_)
ChunksSize(cs) ==
  IF cs = <<>> THEN 0
  ELSE 1 + (IF Head(cs).text # <<>> THEN TextSize(Head(cs).text[1]) ELSE 0)
         + ChunksSize(Tail(cs))
Size(file) ==
  1 + (IF file.exif = <<>> THEN 0
       ELSE 1 + file.exif[1].other + (IF file.exif[1].sw THEN 1 ELSE 0)
              + (IF file.exif[1].desc = <<>> THEN 0
                 ELSE TextSize(file.exif[1].desc[1])))
    + ChunksSize(file.chunks) + file.tail
IsPublicRoute(pathname) ==
  \/ pathname = publicRoutes[1]
  \/ \E r \in 2..Len(publicRoutes) :
       \/ pathname = publicRoutes[r]
       \/ startsWith(pathname, publicRoutes[r] \o <<Slash>>)
\* C20: protected routes require a token.  Of the requests that reached the
\* middleware on a matched path without a token, only those for a public
\* route went on; every other one was redirected to the sign-in page.
C20_ProtectedRoutesRequireToken ==
  \A i \in 1..Len(gate) :
    (gate[i].matched /\ gate[i].token = <<>> /\ ~IsPublicRoute(gate[i].pathname))
    => gate[i].outcome = "redirect"

\* C21: the placeholder is never exposed.  Whatever the sign route returns,
\* the signature payload a reader finds embedded in it, if there is one, has
\* a signature field that is a non-empty string: the image of step 4, whose
\* payload has the empty signature, is never what is returned.
C21_PlaceholderNeverExposed ==
  signResp.status = 200 =>
    \A i \in 1..Len(extractByFormat(signResp.body[1], signResp.body[1].fmt)) :
      extractByFormat(signResp.body[1], signResp.body[1].fmt)[i].kind = "object"
      => /\ extractByFormat(signResp.body[1], signResp.body[1].fmt)[i]
              .obj.signature.t = "str"
         /\ extractByFormat(signResp.body[1], signResp.body[1].fmt)[i]
              .obj.signature.s # <<>>
C21_Witness ==
  /\ Embeds
  /\ signResp.info.path = "jpeg-signed"
  /\ SignedPayload.signature.t = "str"
  /\ SignedPayload.signature.s # <<>>
  /\ SignedPayload.originalBufferHash = Str(Sha256Hex(Input))

\* C22: the verification key is not attacker-selectable.  When a verify
\* handler reports verified = true for a file that carries a payload with a
\* signature, that signature was made with the private key of the pair whose
\* public key is configured as SIGNING_PUBLIC_KEY, whatever else the payload
\* holds.
C22_KeyNotAttackerSelectable ==
  ( /\ verifyResp.status = 200
    /\ verifyResp.result.verified
    /\ Embedded # <<>>
    /\ Embedded[1].kind = "object"
    /\ Embedded[1].obj.signature.t = "str"
    /\ Embedded[1].obj.signature.s # <<>> )
  => Embedded[1].obj.signature.s[1].a = env.SIGNING_PUBLIC_KEY[1].a

\* the image bytes the sign route signed for what it returned: the PNG
\* re-encoded without Signature chunk, the JPEG with the empty signature in
\* its payload
CanonicalSigned ==
  IF signResp.body[1].fmt = "png" THEN encode(OtherChunks(signResp.body[1]))
  ELSE [signResp.body[1] EXCEPT
          !.exif[1].desc = <<JSONstringify([SignedPayload EXCEPT
                                             !.signature = Str(<<>>)])>>]
\* C23: same payload on both algorithm paths.  Whichever of the two signing
\* paths made it, the embedded signature is over the canonical image bytes,
\* then the encrypted identity token, then the timestamp; and a verify
\* handler gives the same result for a file whichever of the two
\* verification paths the build takes.
C23_SamePayloadBothPaths ==
  /\ Embeds =>
       SignedPayload.signature =
         Str(SigB64(signResp.info.privateKey[1].a,
                    Bytes(CanonicalSigned) \o SignedPayload.email.s
                      \o SignedPayload.timestamp.s))
  /\ held.file # <<>> =>
       /\ verifyImage(held.file[1], env, TRUE) = verifyImage(held.file[1], env, FALSE)
       /\ verifyImageRoute(held.file[1], env, TRUE)
            = verifyImageRoute(held.file[1], env, FALSE)
C23_Witness ==
  /\ Embeds /\ SignedHeld /\ Untouched
  /\ signResp.info.path = "png-signed"
  /\ KeyAlg(signResp.info.privateKey[1].a) = "rsa"
  /\ SignedPayload.signature =
       Str(SigB64(signResp.info.privateKey[1].a,
                  Bytes(CanonicalSigned) \o SignedPayload.email.s
                    \o SignedPayload.timestamp.s))
  /\ Answered("sign/route.ts")
  /\ verifyResp.result.verified

\* C24: signed values are the embedded values.  In what the sign route
\* returns with a signature, the bytes that follow the image bytes in the
\* signed data are the embedded token followed by the embedded timestamp; the
\* timestamp is the one time the request read, and the token is one
\* encryption of the session address.
C24_SignedValuesEmbedded ==
  Embeds =>
    /\ Len(SignedPayload.signature.s) = 1
    /\ SubSeq(SignedPayload.signature.s[1].m, 2, Len(SignedPayload.signature.s[1].m))
         = SignedPayload.email.s \o SignedPayload.timestamp.s
    /\ SignedPayload.timestamp = Str(toISOString(signResp.info.now))
    /\ \E iv \in 1..MaxIv :
         SignedPayload.email.s
           = encryptEmail(signResp.info.identity[1], signResp.info.secret, iv)
C24_Witness ==
  /\ Embeds
  /\ signResp.info.path = "png-signed"
  /\ signResp.info.now = MaxTime
  /\ SignedPayload.timestamp = Str(toISOString(MaxTime))
  /\ SubSeq(SignedPayload.signature.s[1].m, 2, Len(SignedPayload.signature.s[1].m))
       = SignedPayload.email.s \o toISOString(MaxTime)

\* C25: identity and timestamp are validated before success.  Every result
\* with verified = true that a verify handler returns names an identity of
\* the shape local@domain.tld and a timestamp that parses as a date.
C25_ValidatedBeforeSuccess ==
  (verifyResp.status = 200 /\ verifyResp.result.verified) =>
    /\ verifyResp.result.email.t = "str"
    /\ emailRegexTest(verifyResp.result.email.s)
    /\ ValidDate(verifyResp.result.timestamp)

\* C26: re-signing a PNG replaces the signature.  After a PNG was signed and
\* what came back was signed again, any number of times, the result without
\* its Signature chunk, re-encoded, is the first input without Signature
\* chunks, re-encoded; it holds one Signature chunk, whose payload is that of
\* the most recent request; and the verify handler, run with the keys of
\* that request, reports that request's identity and timestamp.
C26_ResignReplaces ==
  (chain.n > 0 /\ signResp.status = 200 /\ signResp.info.path = "png-signed") =>
    /\ chain.first[1].fmt = "png"
    /\ encode(OtherChunks(signResp.body[1]))
         = encode(SelectSeq(Val(extract(chain.first[1])),
                            LAMBDA c : ~IsSignatureChunk(c)))
    /\ Cardinality({i \in 1..Len(signResp.body[1].chunks) :
                      IsSignatureChunk(signResp.body[1].chunks[i])}) = 1
    /\ decryptEmail(SignedPayload.email, signResp.info.secret)
         = Str(signResp.info.identity[1])
    /\ SignedPayload.timestamp = Str(toISOString(signResp.info.now))
    /\ (SignedHeld /\ Untouched /\ SameDeployment /\ Answered("sign/route.ts")) =>
         /\ verifyResp.result.verified
         /\ verifyResp.result.email = Str(signResp.info.identity[1])
         /\ verifyResp.result.timestamp = Str(toISOString(signResp.info.now))
C26_Witness ==
  /\ chain.n = MaxResign
  /\ signResp.status = 200 /\ signResp.info.path = "png-signed"
  /\ \E i \in 1..Len(chain.first[1].chunks) : IsSignatureChunk(chain.first[1].chunks[i])
  /\ SignedHeld /\ Untouched /\ SameDeployment /\ Answered("sign/route.ts")
  /\ verifyResp.result.verified
  /\ verifyResp.result.email = Str(Email(3))

\* C27: identity is disclosed only on success.  In every result a verify
\* handler returns, email and timestamp are present exactly when verified is
\* true; a result with verified = false holds neither, also when the token
\* of the file decrypts under the configured secret.
C27_IdentityOnlyOnSuccess ==
  /\ verifyResp.result.verified <=> verifyResp.result.email # Undef
  /\ verifyResp.result.verified <=> verifyResp.result.timestamp # Undef
C27_Witness ==
  /\ Answered("sign/route.ts")
  /\ ~verifyResp.result.verified
  /\ verifyResp.result.error
       = "Invalid signature. The image content or metadata may have been tampered with."
  /\ Embedded # <<>> /\ Embedded[1].kind = "object"
  /\ decryptEmail(Embedded[1].obj.email, env.ENCRYPTION_SECRET) = Str(Email(1))
  /\ verifyResp.result.email = Undef
  /\ verifyResp.result.timestamp = Undef

\* the number of audit events of one kind recorded for the last request
Recorded(event) == Cardinality({i \in DOMAIN audit : audit[i].event = event})

\* C28: verify attempts are audited with their outcome.  For a verify
\* request that passed input validation the audit log holds exactly one
\* VERIFY event, a VERIFY_SUCCESS event exactly when the result has
\* verified = true, and a VERIFY_FAIL event exactly when it has
\* verified = false.
C28_VerifyAudited ==
  Answered("sign/route.ts") =>
    /\ Recorded("VERIFY") = 1
    /\ Recorded("VERIFY_SUCCESS") > 0 <=> verifyResp.result.verified
    /\ Recorded("VERIFY_FAIL") > 0 <=> ~verifyResp.result.verified

\* ------------------------------------------------- ImageUpload component
\* The second component of ImageUpload.tsx (227-600), rendered for a signed-in
\* user.  Each handler runs to its end or to its await in one step; the rest
\* of handleUpload runs when the response to its fetch arrives.  The drag
\* highlight (isDragOver) takes no part in any handler's decisions and is
\* left out.  input is the value of the hidden file input, whose change
\* event fires only when the chosen file differs from it.

\* handleFileInputChange (248-255) with handleFileSelect (239-246)
UploadFileInputChange ==
  /\ \E file \in 0..MaxFiles :
       /\ file # upload.input
       /\ upload' = IF file = 0 THEN [upload EXCEPT !.input = 0]
                    ELSE [upload EXCEPT !.input = file, !.selectedFile = file,
                                        !.previewUrl = file, !.uploading = FALSE,
                                        !.error = "", !.success = FALSE]
  /\ UNCHANGED <<env, signResp, held, verifyResp, audit, gate, chain, verification>>

\* handleDrop (257-265) with handleFileSelect: files[0] of the drop, if any,
\* and whether its type starts with image/
UploadDrop ==
  /\ \E file \in 0..MaxFiles, image \in BOOLEAN :
       upload' = IF file # 0 /\ image
                 THEN [upload EXCEPT !.selectedFile = file, !.previewUrl = file,
                                     !.uploading = FALSE, !.error = "",
                                     !.success = FALSE]
                 ELSE upload
  /\ UNCHANGED <<env, signResp, held, verifyResp, audit, gate, chain, verification>>

\* a click on the upload button (545-547), which is disabled without a file
\* and while uploadState.uploading; handleUpload (277-303) up to its fetch
HandleUpload ==
  /\ ~(upload.selectedFile = 0 \/ upload.uploading)
  /\ upload.started < MaxFetches
  /\ \E hasEmail \in BOOLEAN :
       upload' = IF upload.selectedFile = 0
                 THEN [upload EXCEPT !.error = "Please select an image first"]
                 ELSE IF ~hasEmail
                 THEN [upload EXCEPT !.error = "Please sign in to upload images"]
                 ELSE [upload EXCEPT
                         !.uploading = TRUE, !.error = "", !.success = FALSE,
                         !.started = @ + 1,
                         !.requests = @ \cup {[id |-> upload.started + 1,
                                               file |-> upload.selectedFile]}]
  /\ UNCHANGED <<env, signResp, held, verifyResp, audit, gate, chain, verification>>

\* the rest of handleUpload (305-338) when the response of one request
\* arrives: ok is response.ok, error the error of the response body ("" when
\* it has none, or when fetch itself failed with the message "Upload failed")
UploadCompletes ==
  /\ \E r \in upload.requests, ok \in BOOLEAN, error \in {"", "Unauthorized"} :
       upload' = IF ok
                 THEN [upload EXCEPT !.requests = @ \ {r}, !.download = r.file,
                                     !.uploading = FALSE, !.error = "",
                                     !.success = TRUE, !.selectedFile = 0,
                                     !.previewUrl = 0, !.input = 0]
                 ELSE [upload EXCEPT !.requests = @ \ {r},
                                     !.uploading = FALSE, !.success = FALSE,
                                     !.error = IF error = "" THEN "Upload failed"
                                               ELSE error]
  /\ UNCHANGED <<env, signResp, held, verifyResp, audit, gate, chain, verification>>

\* clearSelection (341-348), whose button is part of the preview (500-512)
ClearSelection ==
  /\ upload.previewUrl # 0
  /\ upload' = [upload EXCEPT !.selectedFile = 0, !.previewUrl = 0,
                              !.uploading = FALSE, !.error = "",
                              !.success = FALSE, !.input = 0]
  /\ UNCHANGED <<env, signResp, held, verifyResp, audit, gate, chain, verification>>

UploadNext ==
  UploadFileInputChange \/ UploadDrop \/ HandleUpload \/ UploadCompletes
    \/ ClearSelection
UploadSpec == Init /\ [][UploadNext]_vars

\* C29: at most one sign request in flight.  While a request to /api/sign
\* started by handleUpload has not completed no second one is started, under
\* every interleaving of file selection, drop, clear and click; and when a
\* request completes, the selection is reset only if it is the file the
\* request was started for.
C29_OneSignRequestInFlight ==
  /\ [](Cardinality(upload.requests) <= 1)
  /\ [][\A r \in upload.requests :
          (r \notin upload'.requests /\ upload.selectedFile # 0
             /\ upload'.selectedFile = 0 /\ upload'.download = r.file
             /\ upload'.success)
            => upload.selectedFile = r.file]_vars

\* -------------------------------------------- ImageVerification component
\* ImageVerification.tsx.  handleFileSelect runs to its await in the step of
\* the event that called it and sends the verify request numbered started;
\* the rest of it runs when the response of that request arrives.  The drag
\* highlight is left out as for ImageUpload.

\* handleFileInputChange (65-73) with handleFileSelect (32-46)
VerificationFileInputChange ==
  /\ verification.started < MaxFetches
  /\ \E file \in 0..MaxFiles :
       /\ file # verification.input
       /\ verification' =
            IF file = 0 THEN [verification EXCEPT !.input = 0]
            ELSE [verification EXCEPT
                    !.input = file, !.selectedFile = file, !.previewUrl = file,
                    !.verifying = TRUE, !.error = "", !.result = "", !.shown = 0,
                    !.started = @ + 1,
                    !.requests = @ \cup {[id |-> verification.started + 1,
                                          file |-> file]}]
  /\ UNCHANGED <<env, signResp, held, verifyResp, audit, gate, chain, upload>>

\* handleDrop (75-85) with handleFileSelect (32-46)
VerificationDrop ==
  /\ verification.started < MaxFetches
  /\ \E file \in 0..MaxFiles, image \in BOOLEAN :
       verification' =
         IF file # 0 /\ image
         THEN [verification EXCEPT
                 !.selectedFile = file, !.previewUrl = file,
                 !.verifying = TRUE, !.error = "", !.result = "", !.shown = 0,
                 !.started = @ + 1,
                 !.requests = @ \cup {[id |-> verification.started + 1,
                                       file |-> file]}]
         ELSE verification
  /\ UNCHANGED <<env, signResp, held, verifyResp, audit, gate, chain, upload>>

\* the rest of handleFileSelect (48-62) when the response of one request
\* arrives, in any order: ok is response.ok, verified the field of the body,
\* error the error of a body that is not ok ("" when it has none)
VerificationCompletes ==
  /\ \E r \in verification.requests, ok \in BOOLEAN, verified \in BOOLEAN,
        error \in {"", "No image file provided"} :
       verification' =
         IF ok
         THEN Settled(verification, r, "",
                      IF verified THEN "verified" ELSE "not verified")
         ELSE Settled(verification, r,
                      IF error = "" THEN "Verification failed" ELSE error, "")
  /\ UNCHANGED <<env, signResp, held, verifyResp, audit, gate, chain, upload>>

\* resetState (23-30), whose button is rendered with an error or a result
\* (198-205)
ResetState ==
  /\ verification.error # "" \/ verification.result # ""
  /\ verification' = [verification EXCEPT
                        !.selectedFile = 0, !.previewUrl = 0, !.input = 0,
                        !.verifying = FALSE, !.error = "", !.result = "",
                        !.shown = 0]
  /\ UNCHANGED <<env, signResp, held, verifyResp, audit, gate, chain, upload>>

VerificationNext ==
  VerificationFileInputChange \/ VerificationDrop \/ VerificationCompletes
    \/ ResetState
VerificationSpec == Init /\ [][VerificationNext]_vars

\* C30: the displayed result matches the selected file.  Whenever the
\* component holds a verification result or an error, it is the outcome of
\* the request made for the currently selected file, under every
\* interleaving of selections, drops, resets and response arrivals; so with
\* no file selected, as after resetState, no outcome is held.
C30_ResultMatchesSelectedFile ==
  (verification.result # "" \/ verification.error # "") =>
    /\ verification.selectedFile # 0
    /\ verification.shown = verification.started

====
